---- MODULE Spec2Model ----
(***************************************************************************)
(* JetObsMC: four-vector algebra, the Jet aggregate, kinematic and shape   *)
(* observables, and the detector-input canonicalisation layer.             *)
(*                                                                         *)
(* Numbers.  A binary64 value is modelled as a record                      *)
(*     [k |-> "fin", v |-> n]   a finite number, n an integer count of      *)
(*                              fixed-point steps                          *)
(*     [k |-> "inf", v |-> s]   signed infinity, s \in {1, -1}              *)
(*     [k |-> "nan", v |-> 0]   NaN                                         *)
(* with IEEE-754 rules for the special values (inf - inf = NaN,            *)
(* 0 * inf = NaN, NaN unequal to everything, itself included).  Addition,  *)
(* subtraction and multiplication of finite values are exact; sqrt, log,   *)
(* atan2 and division are rounded to the fixed-point step, as binary64     *)
(* rounds them to its own precision.  Angles (eta, phi, Delta R) are       *)
(* counted in steps of pi / Pi.                                            *)
(***************************************************************************)
EXTENDS Integers, Sequences, FiniteSets, TLC

VARIABLES
    pc,      \* position of the current call: "call" (pending) or "done"
    arg,     \* arguments of the current call
    res,     \* what the call returned or raised
    caller,  \* the array object the caller holds and passes to Jet(...)
    jet,     \* the Jet object (built or not), its particles reference and p4
    ret      \* result of the last operation on the Jet

vars == <<pc, arg, res, caller, jet, ret>>

----------------------------------------------------------------------------
(* Bounds of the model *)

\* largest number of rows of an input array
MaxRows == 2

----------------------------------------------------------------------------
(* binary64 values *)

Fin(n) == [k |-> "fin", v |-> n]
PInf == [k |-> "inf", v |-> 1]
NInf == [k |-> "inf", v |-> -1]
NaN == [k |-> "nan", v |-> 0]

IsFin(x) == x.k = "fin"
IsInf(x) == x.k = "inf"
IsNaN(x) == x.k = "nan"

Abs(n) == IF n < 0 THEN -n ELSE n
Sgn(n) == IF n > 0 THEN 1 ELSE IF n < 0 THEN -1 ELSE 0
Max(a, b) == IF a >= b THEN a ELSE b

\* IEEE comparison a == b: false as soon as one side is NaN
FEq(a, b) == ~IsNaN(a) /\ ~IsNaN(b) /\ a = b

\* IEEE a - b
FSub(a, b) ==
    IF IsNaN(a) \/ IsNaN(b) THEN NaN
    ELSE IF IsInf(a) /\ IsInf(b) THEN (IF a.v = b.v THEN NaN ELSE a)
    ELSE IF IsInf(a) THEN a
    ELSE IF IsInf(b) THEN [k |-> "inf", v |-> -b.v]
    ELSE Fin(a.v - b.v)

\* IEEE a * b
FMul(a, b) ==
    IF IsNaN(a) \/ IsNaN(b) THEN NaN
    ELSE IF IsInf(a) \/ IsInf(b)
         THEN (IF Sgn(a.v) * Sgn(b.v) = 0 THEN NaN
               ELSE [k |-> "inf", v |-> Sgn(a.v) * Sgn(b.v)])
    ELSE Fin(a.v * b.v)

\* IEEE a + b
FAdd(a, b) ==
    IF IsNaN(a) \/ IsNaN(b) THEN NaN
    ELSE IF IsInf(a) /\ IsInf(b) THEN (IF a.v = b.v THEN a ELSE NaN)
    ELSE IF IsInf(a) THEN a
    ELSE IF IsInf(b) THEN b
    ELSE Fin(a.v + b.v)

\* IEEE a / b (a finite quotient is rounded to the fixed-point step)
FDiv(a, b) ==
    IF IsNaN(a) \/ IsNaN(b) THEN NaN
    ELSE IF IsInf(a) /\ IsInf(b) THEN NaN
    ELSE IF IsInf(a) THEN [k |-> "inf", v |-> IF b.v < 0 THEN -a.v ELSE a.v]
    ELSE IF IsInf(b) THEN Fin(0)
    ELSE IF b.v = 0 THEN (IF a.v = 0 THEN NaN ELSE [k |-> "inf", v |-> Sgn(a.v)])
    ELSE Fin(Sgn(a.v) * Sgn(b.v) * ((2 * Abs(a.v) + Abs(b.v)) \div (2 * Abs(b.v))))

\* IEEE a < b
FLt(a, b) ==
    /\ ~IsNaN(a) /\ ~IsNaN(b)
    /\ IF IsInf(a) THEN a.v = -1 /\ b # a
       ELSE IF IsInf(b) THEN b.v = 1
       ELSE a.v < b.v

\* np.min of two values: NaN propagates
FMin(a, b) == IF IsNaN(a) \/ IsNaN(b) THEN NaN ELSE IF FLt(b, a) THEN b ELSE a

\* np.sum of a sequence of values
RECURSIVE FSum(_)
FSum(xs) == IF xs = <<>> THEN Fin(0) ELSE FAdd(Head(xs), FSum(Tail(xs)))

\* np.min of a non-empty sequence of values
RECURSIVE FMinSeq(_)
FMinSeq(xs) == IF Len(xs) = 1 THEN xs[1] ELSE FMin(Head(xs), FMinSeq(Tail(xs)))

\* sqrt of a non-negative integer, rounded down to the fixed-point step
ISqrt(n) == CHOOSE r \in 0..n : r * r <= n /\ (r + 1) * (r + 1) > n

\* np.sqrt: NaN for a negative argument
FSqrt(n) == IF n < 0 THEN NaN ELSE Fin(ISqrt(n))

\* np.hypot: an infinite argument wins over NaN
FHypot(a, b) ==
    IF IsInf(a) \/ IsInf(b) THEN PInf
    ELSE IF IsNaN(a) \/ IsNaN(b) THEN NaN
    ELSE Fin(ISqrt(a.v * a.v + b.v * b.v))

----------------------------------------------------------------------------
(* Results of a call *)

Ok(x) == [tag |-> "ok", val |-> x]
Raise(e) == [tag |-> "raise", val |-> e]
Idle == [tag |-> "none", val |-> 0]

----------------------------------------------------------------------------
(* Fixed-point constants and elementary functions *)

\* np.pi in angular steps (one step is pi/8)
Pi == 8

\* n / d rounded to the nearest step, halves away from zero (d > 0)
RoundDiv(n, d) == Sgn(n) * ((2 * Abs(n) + d) \div (2 * d))

\* cos(k * pi/8) in thousandths, k = 0..4
CosTable == <<1000, 924, 707, 383, 0>>

\* cosh(k * pi/8) and sinh(k * pi/8) in thousandths, k = 0..4
CoshTable == <<1000, 1078, 1325, 1778, 2509>>
SinhTable == <<0, 403, 869, 1470, 2301>>

\* np.cos, np.sin of an angle in steps; np.cosh, np.sinh of a rapidity in steps
Cos(a) ==
    LET k == a % (2 * Pi)
        m == IF k > Pi THEN 2 * Pi - k ELSE k
    IN  IF 2 * m <= Pi THEN CosTable[m + 1] ELSE -CosTable[Pi - m + 1]
Sin(a) == Cos(a - Pi \div 2)
Cosh(y) == CoshTable[Abs(y) + 1]
Sinh(y) == Sgn(y) * SinhTable[Abs(y) + 1]

\* exp(j * pi/4) in thousandths, j = 0..8: 0.5 * ln(r) >= j steps iff r >= exp(j * pi/4)
ExpTable == <<1000, 2193, 4810, 10551, 23141, 50754, 111318, 244151, 535492>>

\* tan((2j - 1) * pi/16) in thousandths, j = 1..4: the rounding boundaries of arctan
TanTable == <<199, 668, 1497, 5027>>

\* 0.5 * np.log(n / d) for n, d > 0, in angular steps, rounded toward zero
HalfLogSteps(n, d) == Cardinality({j \in 2..Len(ExpTable) : n * 1000 >= d * ExpTable[j]})
HalfLog(n, d) == IF n >= d THEN HalfLogSteps(n, d) ELSE -HalfLogSteps(d, n)

\* np.arctan2(y, x) in angular steps, rounded to the nearest step
ArcTanSteps(y, x) == Cardinality({j \in 1..Len(TanTable) : y * 1000 >= x * TanTable[j]})
ArcTan2(y, x) ==
    IF x = 0 /\ y = 0 THEN 0
    ELSE IF x >= 0 THEN Sgn(y) * ArcTanSteps(Abs(y), x)
    ELSE IF y >= 0 THEN Pi - ArcTanSteps(Abs(y), -x)
    ELSE -(Pi - ArcTanSteps(Abs(y), -x))

----------------------------------------------------------------------------
(* Arrays.  An ndarray is [shape, rows]: shape is the tuple of dimensions, *)
(* rows the sequence of its rows when the array is 2-D (empty otherwise).  *)

Array(rs, ncol) == [shape |-> <<Len(rs), ncol>>, rows |-> rs]
Empty04 == [shape |-> <<0, 4>>, rows |-> <<>>]
NDim(a) == Len(a.shape)

\* if arr.ndim == 1 and arr.shape[0] == 0: arr = arr.reshape(0, 4)
Reshape04(a) == IF NDim(a) = 1 /\ a.shape[1] = 0 THEN Empty04 ELSE a

\* arr[mask]: the rows whose mask entry is true, in order
RECURSIVE Compress(_, _)
Compress(rs, mask) ==
    IF rs = <<>> THEN <<>>
    ELSE (IF Head(mask) THEN <<Head(rs)>> ELSE <<>>)
         \o Compress(Tail(rs), Tail(mask))

----------------------------------------------------------------------------
(* jetobsmc/evaluation.py *)

\* one row of nonzero_row & positive_pt & nonzero_pdgid
RowMaskNoPdg(row, atol) ==
    /\ \E c \in 1..4 : Abs(row[c]) > atol
    /\ row[1] > atol
RowMask(row, atol) ==
    /\ \E c \in 1..4 : Abs(row[c]) > atol
    /\ row[1] > atol
    /\ row[4] # 0

canonical_constituent_mask(particles, atol) ==
    LET arr == Reshape04(particles)
    IN  IF NDim(arr) # 2 \/ arr.shape[2] # 4
        THEN Raise("ValueError")
        ELSE Ok([i \in 1..Len(arr.rows) |-> RowMask(arr.rows[i], atol)])

strip_padding_keep_all(particles, atol) ==
    LET arr == Reshape04(particles)
        m == canonical_constituent_mask(arr, atol)
    IN  IF m.tag = "raise" THEN m
        ELSE Ok(Array(arr.rows, 4))
strip_padding(particles, atol) ==
    LET arr == Reshape04(particles)
        m == canonical_constituent_mask(arr, atol)
    IN  IF m.tag = "raise" THEN m
        ELSE Ok(Array(Compress(arr.rows, m.val), 4))

\* constituent_multiplicity(particles, atol): np.count_nonzero of the mask
constituent_multiplicity(particles, atol) ==
    LET m == canonical_constituent_mask(particles, atol)
    IN  IF m.tag = "raise" THEN m
        ELSE Ok(Cardinality({i \in 1..Len(m.val) : m.val[i]}))

\* np.max of a non-empty sequence of numbers
RECURSIVE SeqMax(_)
SeqMax(xs) == IF Len(xs) = 1 THEN xs[1] ELSE Max(Head(xs), SeqMax(Tail(xs)))

\* leading_constituent_pt(particles, atol)
leading_constituent_pt(particles, atol) ==
    LET valid == strip_padding(particles, atol)
    IN  IF valid.tag = "raise" THEN valid
        ELSE IF valid.val.shape[1] = 0 THEN Ok(0)
        ELSE Ok(SeqMax([i \in 1..Len(valid.val.rows) |-> valid.val.rows[i][1]]))

\* one row (pT, y, phi, pdgid) to (E, px, py, pz) under assume_massless
RowToP4(row) ==
    << RoundDiv(row[1] * Cosh(row[2]), 1000),
       RoundDiv(row[1] * Cos(row[3]), 1000),
       RoundDiv(row[1] * Sin(row[3]), 1000),
       RoundDiv(row[1] * Sinh(row[2]), 1000) >>

ptyphipdg_to_p4(particles, apply_padding_mask, assume_massless, atol) ==
    LET arr0 == Reshape04(particles)
        arr == IF apply_padding_mask THEN strip_padding(arr0, atol) ELSE Ok(arr0)
    IN  IF NDim(arr0) # 2 \/ arr0.shape[2] # 4 THEN Raise("ValueError")
        ELSE IF arr.val.shape[1] = 0 THEN Ok(Empty04)
        ELSE IF ~assume_massless THEN Raise("NotImplementedError")
        ELSE Ok(Array([i \in 1..Len(arr.val.rows) |-> RowToP4(arr.val.rows[i])], 4))

----------------------------------------------------------------------------
(* jetobsmc/fourvector.py: the FourVector value, and jetobsmc/jet.py *)

FourVector(E, px, py, pz) == [E |-> E, px |-> px, py |-> py, pz |-> pz]
ZeroVector == FourVector(0, 0, 0, 0)

\* FourVector.from_array(p) for p of shape (4,)
from_array(p) == FourVector(p[1], p[2], p[3], p[4])

\* EPS = 1e-12: momenta are counted in steps of EPS / 2
EPS == 2

\* FourVector.dot
dot(a, b) == a.E * b.E - a.px * b.px - a.py * b.py - a.pz * b.pz

\* FourVector.mass: sqrt(max(m2, 0.0))
mass_unclamped(v) == FSqrt(dot(v, v))
mass(v) == FSqrt(Max(dot(v, v), 0))

\* FourVector.pt
pt(v) == Fin(ISqrt(v.px * v.px + v.py * v.py))

\* FourVector.eta
eta(v) ==
    LET p_abs == ISqrt(v.px * v.px + v.py * v.py + v.pz * v.pz)
        numer == p_abs + v.pz
        denom == p_abs - v.pz
    IN  IF Abs(denom) < EPS \/ numer <= 0 \/ denom <= 0
        THEN FMul(Fin(Sgn(v.pz)), PInf)
        ELSE Fin(HalfLog(numer, denom))

\* FourVector.phi
phi(v) == Fin(ArcTan2(v.py, v.px))

\* eta_array(vectors): one entry per row of an (N, 4) array
eta_array_row_no_eps(r) ==
    LET p_abs == ISqrt(r[2] * r[2] + r[3] * r[3] + r[4] * r[4])
        numer == p_abs + r[4]
        denom == p_abs - r[4]
        bad == (numer <= 0) \/ (denom <= 0)
    IN  IF bad THEN FMul(Fin(Sgn(r[4])), PInf) ELSE Fin(HalfLog(numer, denom))
eta_array_row(r) ==
    LET p_abs == ISqrt(r[2] * r[2] + r[3] * r[3] + r[4] * r[4])
        numer == p_abs + r[4]
        denom == p_abs - r[4]
        bad == (Abs(denom) < EPS) \/ (numer <= 0) \/ (denom <= 0)
    IN  IF bad THEN FMul(Fin(Sgn(r[4])), PInf) ELSE Fin(HalfLog(numer, denom))
eta_array(vectors) ==
    IF NDim(vectors) # 2 \/ vectors.shape[2] # 4 THEN Raise("ValueError")
    ELSE Ok([i \in 1..Len(vectors.rows) |-> eta_array_row(vectors.rows[i])])

\* phi_array(vectors)
phi_array(vectors) ==
    IF NDim(vectors) # 2 \/ vectors.shape[2] # 4 THEN Raise("ValueError")
    ELSE Ok([i \in 1..Len(vectors.rows) |-> Fin(ArcTan2(vectors.rows[i][3], vectors.rows[i][2]))])

----------------------------------------------------------------------------
(* observables/kinematics.py *)

\* wrap_delta_phi(dphi) = (dphi + pi) % (2 pi) - pi
wrap_delta_phi_upper(dphi) ==
    IF ~IsFin(dphi) THEN NaN
    ELSE Fin(Pi - ((Pi - dphi.v) % (2 * Pi)))
wrap_delta_phi(dphi) ==
    IF ~IsFin(dphi) THEN NaN
    ELSE Fin(((dphi.v + Pi) % (2 * Pi)) - Pi)

\* delta_r(jet_a, jet_b) on the jets' aggregates
delta_r(p4_a, p4_b) ==
    LET deta == FSub(eta(p4_a), eta(p4_b))
        dphi == wrap_delta_phi(FSub(phi(p4_a), phi(p4_b)))
    IN  FHypot(deta, dphi)

\* particles.sum(axis=0)
RECURSIVE SumRows(_)
SumRows(rs) ==
    IF rs = <<>> THEN <<0, 0, 0, 0>>
    ELSE LET h == Head(rs)
             t == SumRows(Tail(rs))
         IN  <<h[1] + t[1], h[2] + t[2], h[3] + t[3], h[4] + t[4]>>

\* the aggregate computed by Jet.__init__
Aggregate(arr) ==
    IF arr.shape[1] = 0 THEN ZeroVector ELSE from_array(SumRows(arr.rows))

\* Jet.__init__(particles): the stored particles and p4, or the error raised
JetInitAnyEmpty(particles) ==
    LET arr == IF particles.shape # <<>> /\ particles.shape[1] = 0
               THEN Empty04 ELSE particles
    IN  IF NDim(arr) # 2 THEN Raise("ValueError")
        ELSE IF arr.shape[2] # 4 THEN Raise("ValueError")
        ELSE Ok([particles |-> arr, p4 |-> Aggregate(arr)])
JetInit(particles) ==
    LET arr == Reshape04(particles)
    IN  IF NDim(arr) # 2 THEN Raise("ValueError")
        ELSE IF arr.shape[2] # 4 THEN Raise("ValueError")
        ELSE Ok([particles |-> arr, p4 |-> Aggregate(arr)])

\* Jet.from_ptyphipdg(particles, apply_padding_mask, assume_massless, atol)
from_ptyphipdg(particles, apply_padding_mask, assume_massless, atol) ==
    LET p4 == ptyphipdg_to_p4(particles, apply_padding_mask, assume_massless, atol)
    IN  IF p4.tag = "raise" THEN p4 ELSE JetInit(p4.val)

----------------------------------------------------------------------------
(* observables: shapes.py and substructure.py.  A jet J is the record      *)
(* [particles, p4] the observable reads.                                   *)

NRows(J) == J.particles.shape[1]

\* _constituent_pts(particles)
constituent_pts(particles) ==
    [i \in 1..Len(particles.rows) |->
        Fin(ISqrt(particles.rows[i][2] * particles.rows[i][2]
                  + particles.rows[i][3] * particles.rows[i][3]))]

\* Delta R of every constituent to the jet axis
AxisDr(J) ==
    LET etas == eta_array(J.particles).val
        phis == phi_array(J.particles).val
    IN  [i \in 1..NRows(J) |->
            FHypot(FSub(etas[i], eta(J.p4)), wrap_delta_phi(FSub(phis[i], phi(J.p4))))]

\* Delta R between constituents i and j
PairDr(J, i, j) ==
    LET etas == eta_array(J.particles).val
        phis == phi_array(J.particles).val
    IN  FHypot(FSub(etas[i], etas[j]), wrap_delta_phi(FSub(phis[i], phis[j])))

\* jet_width(jet)
jet_width_unguarded(J) ==
    LET pts == constituent_pts(J.particles)
        dr == AxisDr(J)
    IN  FDiv(FSum([i \in 1..NRows(J) |-> FMul(pts[i], dr[i])]), FSum(pts))
jet_width(J) ==
    IF NRows(J) = 0 THEN Fin(0)
    ELSE LET pts == constituent_pts(J.particles)
             denom == FSum(pts)
             dr == AxisDr(J)
         IN  IF denom = Fin(0) THEN Fin(0)
             ELSE FDiv(FSum([i \in 1..NRows(J) |-> FMul(pts[i], dr[i])]), denom)

\* girth(jet): alias of jet_width
girth(J) == jet_width(J)

\* dr ** beta on an array element, for an integral beta >= 0
NpPow(x, beta) ==
    IF beta = 0 THEN Fin(1)
    ELSE IF IsNaN(x) THEN NaN
    ELSE IF IsInf(x) THEN PInf
    ELSE Fin(x.v ^ beta)

\* radial_moment(jet, beta)
radial_moment_one_higher(J, beta) ==
    IF NRows(J) = 0 THEN Fin(0)
    ELSE LET pts == constituent_pts(J.particles)
             denom == FSum(pts)
             dr == AxisDr(J)
         IN  IF denom = Fin(0) THEN Fin(0)
             ELSE FDiv(FSum([i \in 1..NRows(J) |-> FMul(pts[i], NpPow(dr[i], beta + 1))]),
                       denom)
radial_moment(J, beta) ==
    IF NRows(J) = 0 THEN Fin(0)
    ELSE LET pts == constituent_pts(J.particles)
             denom == FSum(pts)
             dr == AxisDr(J)
         IN  IF denom = Fin(0) THEN Fin(0)
             ELSE FDiv(FSum([i \in 1..NRows(J) |-> FMul(pts[i], NpPow(dr[i], beta))]),
                       denom)

\* the pairs (i, j), i < j, of np.triu_indices(n, k=1), in row-major order
RECURSIVE UpperPairs(_, _, _)
UpperPairs(n, i, j) ==
    IF i >= n THEN <<>>
    ELSE IF j > n THEN UpperPairs(n, i + 1, i + 2)
    ELSE <<<<i, j>>>> \o UpperPairs(n, i, j + 1)

\* energy_correlation_e2(jet)
energy_correlation_e2_all_pairs(J) ==
    IF NRows(J) < 2 THEN Fin(0)
    ELSE LET pts == constituent_pts(J.particles)
             n == NRows(J)
         IN  FSum([k \in 1..(n * n) |->
                    FMul(FMul(pts[((k - 1) \div n) + 1], pts[((k - 1) % n) + 1]),
                         PairDr(J, ((k - 1) \div n) + 1, ((k - 1) % n) + 1))])
energy_correlation_e2(J) ==
    IF NRows(J) < 2 THEN Fin(0)
    ELSE LET pts == constituent_pts(J.particles)
             upper == UpperPairs(NRows(J), 1, 2)
         IN  FSum([k \in 1..Len(upper) |->
                    FMul(FMul(pts[upper[k][1]], pts[upper[k][2]]),
                         PairDr(J, upper[k][1], upper[k][2]))])

\* jet_observables/observables/shapes.py: nsubjettiness_tau1(jet), to the jet axis
shapes_nsubjettiness_tau1(J) ==
    IF NRows(J) = 0 THEN Fin(0)
    ELSE LET pts == constituent_pts(J.particles)
             dr == AxisDr(J)
         IN  FSum([i \in 1..NRows(J) |-> FMul(pts[i], dr[i])])

\* np.argsort(pts): indices by ascending value, equal values in index order
ArgSort(pts) ==
    LET rank(i) == Cardinality({j \in 1..Len(pts) :
                        pts[j].v < pts[i].v \/ (pts[j].v = pts[i].v /\ j < i)}) + 1
    IN  [k \in 1..Len(pts) |-> CHOOSE i \in 1..Len(pts) : rank(i) = k]

\* _tau_n_proxy(jet, n_axes)
tau_n_proxy_lowest(J, n_axes) ==
    LET n == NRows(J)
    IN  IF n = 0 THEN Ok(Fin(0))
        ELSE IF n_axes <= 0 THEN Raise("ValueError")
        ELSE IF n_axes >= n THEN Ok(Fin(0))
        ELSE LET pts == constituent_pts(J.particles)
                 order == ArgSort(pts)
                 axis_idx == [a \in 1..n_axes |-> order[a]]
                 dr_min == [i \in 1..n |->
                               FMinSeq([a \in 1..n_axes |-> PairDr(J, i, axis_idx[a])])]
             IN  IF FSum(pts) = Fin(0) THEN Ok(Fin(0))
                 ELSE Ok(FSum([i \in 1..n |-> FMul(pts[i], dr_min[i])]))
tau_n_proxy(J, n_axes) ==
    LET n == NRows(J)
    IN  IF n = 0 THEN Ok(Fin(0))
        ELSE IF n_axes <= 0 THEN Raise("ValueError")
        ELSE IF n_axes >= n THEN Ok(Fin(0))
        ELSE LET pts == constituent_pts(J.particles)
                 order == ArgSort(pts)
                 axis_idx == [a \in 1..n_axes |-> order[n - n_axes + a]]
                 dr_min == [i \in 1..n |->
                               FMinSeq([a \in 1..n_axes |-> PairDr(J, i, axis_idx[a])])]
             IN  IF FSum(pts) = Fin(0) THEN Ok(Fin(0))
                 ELSE Ok(FSum([i \in 1..n |-> FMul(pts[i], dr_min[i])]))

\* substructure.py: nsubjettiness_tau1(jet)
nsubjettiness_tau1(J) == tau_n_proxy(J, 1)

\* substructure.py: nsubjettiness_tau2(jet), nsubjettiness_tau3(jet)
nsubjettiness_tau2_lowest_axes(J) == tau_n_proxy_lowest(J, 2)
nsubjettiness_tau2(J) == tau_n_proxy(J, 2)
nsubjettiness_tau3(J) == tau_n_proxy(J, 3)

\* IEEE a <= b
FLe(a, b) == FLt(a, b) \/ FEq(a, b)

\* a / b on two Python floats: a zero divisor raises, everything else is IEEE
PyDiv(a, b) == IF b = Fin(0) THEN Raise("ZeroDivisionError") ELSE Ok(FDiv(a, b))

\* nsubjettiness_tau21(jet)
nsubjettiness_tau21_unguarded(J) ==
    PyDiv(nsubjettiness_tau2(J).val, nsubjettiness_tau1(J).val)
nsubjettiness_tau21(J) ==
    LET tau1 == nsubjettiness_tau1(J).val
    IN  IF FLe(tau1, Fin(0)) THEN Ok(Fin(0))
        ELSE PyDiv(nsubjettiness_tau2(J).val, tau1)

\* nsubjettiness_tau32(jet)
nsubjettiness_tau32(J) ==
    LET tau2 == nsubjettiness_tau2(J).val
    IN  IF FLe(tau2, Fin(0)) THEN Ok(Fin(0))
        ELSE PyDiv(nsubjettiness_tau3(J).val, tau2)

\* itertools.combinations(range(n), 3): the triples i < j < k in lexicographic order
RECURSIVE Combinations3(_, _, _, _)
Combinations3(n, i, j, k) ==
    IF i > n - 2 THEN <<>>
    ELSE IF j > n - 1 THEN Combinations3(n, i + 1, i + 2, i + 3)
    ELSE IF k > n THEN Combinations3(n, i, j + 1, j + 2)
    ELSE <<<<i, j, k>>>> \o Combinations3(n, i, j, k + 1)

\* total += term, over the terms in order
RECURSIVE Accumulate(_, _)
Accumulate(total, terms) ==
    IF terms = <<>> THEN total
    ELSE Accumulate(FAdd(total, Head(terms)), Tail(terms))

\* pts[i] * pts[j] * pts[k] * dr[i, j] * dr[i, k] * dr[j, k]
TripleTerm(J, t) ==
    LET pts == constituent_pts(J.particles)
    IN  FMul(FMul(FMul(FMul(FMul(pts[t[1]], pts[t[2]]), pts[t[3]]),
                       PairDr(J, t[1], t[2])),
                  PairDr(J, t[1], t[3])),
             PairDr(J, t[2], t[3]))

\* energy_correlation_e3(jet)
energy_correlation_e3_first_triple(J) ==
    IF NRows(J) < 3 THEN Fin(0)
    ELSE Accumulate(Fin(0), <<TripleTerm(J, <<1, 2, 3>>)>>)
energy_correlation_e3(J) ==
    IF NRows(J) < 3 THEN Fin(0)
    ELSE LET combos == Combinations3(NRows(J), 1, 2, 3)
         IN  Accumulate(Fin(0), [c \in 1..Len(combos) |-> TripleTerm(J, combos[c])])

\* energy_correlation_c2(jet)
energy_correlation_c2(J) ==
    LET e2 == energy_correlation_e2(J)
    IN  IF FLe(e2, Fin(0)) THEN Ok(Fin(0))
        ELSE PyDiv(energy_correlation_e3(J), FMul(e2, e2))

\* energy_correlation_d2(jet)
energy_correlation_d2(J) ==
    LET e2 == energy_correlation_e2(J)
    IN  IF FLe(e2, Fin(0)) THEN Ok(Fin(0))
        ELSE PyDiv(energy_correlation_e3(J), FMul(FMul(e2, e2), e2))

----------------------------------------------------------------------------
(* observables/groomed.py *)

\* momentum fractions (zg, zcut) are counted in steps of 1 / ZUnit
ZUnit == 100

\* _hardest_pair_indices(jet): None, or the last two indices of np.argsort(pts)
hardest_pair_indices(J) ==
    IF NRows(J) < 2 THEN [none |-> TRUE]
    ELSE LET top == ArgSort(constituent_pts(J.particles))
         IN  [none |-> FALSE, i |-> top[NRows(J) - 1], j |-> top[NRows(J)]]

\* soft_drop_zg_proxy(jet)
soft_drop_zg_proxy(J) ==
    LET pair == hardest_pair_indices(J)
    IN  IF pair.none THEN Fin(0)
        ELSE LET pts == constituent_pts(J.particles)
                 denom == FAdd(pts[pair.i], pts[pair.j])
                 least == IF FLt(pts[pair.j], pts[pair.i]) THEN pts[pair.j] ELSE pts[pair.i]
             IN  IF FLe(denom, Fin(0)) THEN Fin(0)
                 ELSE FDiv(FMul(Fin(ZUnit), least), denom)

\* soft_drop_rg_proxy(jet)
soft_drop_rg_proxy(J) ==
    LET pair == hardest_pair_indices(J)
    IN  IF pair.none THEN Fin(0) ELSE PairDr(J, pair.i, pair.j)

\* x ** b on two Python floats, for x >= 0 or NaN and an integral exponent b
PyPow(x, b) ==
    IF b = 0 THEN Ok(Fin(1))
    ELSE IF IsNaN(x) THEN Ok(NaN)
    ELSE IF IsInf(x) THEN Ok(IF b > 0 THEN PInf ELSE Fin(0))
    ELSE IF b > 0 THEN Ok(Fin(x.v ^ b))
    ELSE IF x.v = 0 THEN Raise("ZeroDivisionError")
    ELSE Ok(FDiv(Fin(1), Fin(x.v ^ (0 - b))))

\* soft_drop_pass_fraction_proxy(jet, zcut, beta, r0)
soft_drop_pass_fraction_proxy(J, zcut, beta, r0) ==
    IF r0 <= 0 THEN Ok(Fin(0))
    ELSE LET zg == soft_drop_zg_proxy(J)
             rg == soft_drop_rg_proxy(J)
             power == PyPow(FDiv(rg, Fin(r0)), beta)
         IN  IF power.tag = "raise" THEN power
             ELSE LET threshold == FMul(Fin(zcut), power.val)
                  IN  Ok(IF FLt(threshold, zg) THEN Fin(1) ELSE Fin(0))

\* jet.particles[i] + jet.particles[j]: the sum is a new array, the operands
\* are left as they were
PairSumInPlace(particles, i, j) ==
    [pair_p4 |-> SumRows(<<particles.rows[i], particles.rows[j]>>),
     particles |-> [particles EXCEPT
                       !.rows[i] = SumRows(<<particles.rows[i], particles.rows[j]>>)]]
PairSum(particles, i, j) ==
    [pair_p4 |-> SumRows(<<particles.rows[i], particles.rows[j]>>),
     particles |-> particles]

\* groomed_pair_mass_proxy(jet)
groomed_pair_mass_proxy(J) ==
    LET pair == hardest_pair_indices(J)
    IN  IF pair.none THEN Fin(0)
        ELSE mass(from_array(PairSum(J.particles, pair.i, pair.j).pair_p4))

\* the array jet.particles refers to once groomed_pair_mass_proxy has returned
particles_after_pair_mass(J) ==
    LET pair == hardest_pair_indices(J)
    IN  IF pair.none THEN J.particles
        ELSE PairSum(J.particles, pair.i, pair.j).particles

----------------------------------------------------------------------------
(* Inputs *)

\* largest rank and largest dimension of an ill-shaped input
MaxRank == 3
MaxDim == 4

\* field values of detector rows (pT, y, phi, pdgid)
PtVals == {-10, 0, 10}
YVals == {0, 2}
PhiVals == {0, 3}
PdgVals == {-211, 0, 22}
DetRows == PtVals \X YVals \X PhiVals \X PdgVals

RECURSIVE SeqsUpTo(_, _)
SeqsUpTo(S, n) ==
    IF n = 0 THEN {<<>>}
    ELSE LET shorter == SeqsUpTo(S, n - 1)
         IN  shorter \cup {Append(q, x) : q \in {r \in shorter : Len(r) = n - 1}, x \in S}

WellShaped(a) == NDim(a) = 2 /\ a.shape[2] = 4

\* arrays of every shape that is not N x 4 (their elements are never read)
IllShaped ==
    {[shape |-> sh, rows |-> <<>>] :
        sh \in {q \in SeqsUpTo(0..MaxDim, MaxRank) : ~(Len(q) = 2 /\ q[2] = 4)}}

DetArrays == {Array(rs, 4) : rs \in SeqsUpTo(DetRows, MaxRows)}

NoJet == [built |-> FALSE]
NoCaller == [kind |-> "none"]

----------------------------------------------------------------------------
(* SpecMask: canonical_constituent_mask on every bounded input *)

InitMask ==
    /\ pc = "call"
    /\ arg \in [particles : DetArrays \cup IllShaped, atol : {0, 10}]
    /\ res = Idle
    /\ caller = NoCaller /\ jet = NoJet /\ ret = Idle

CallMask ==
    /\ pc = "call"
    /\ res' = canonical_constituent_mask(arg.particles, arg.atol)
    /\ pc' = "done"
    /\ UNCHANGED <<arg, caller, jet, ret>>

NextMask == CallMask
SpecMask == InitMask /\ [][NextMask]_vars

\* C1: with atol = 0, a row of an N x 4 input is marked kept iff some field
\* is non-zero and pT > 0 and pdgid # 0; every other row is marked false.
MaskKeepsExactlyCanonicalRows ==
    (pc = "done" /\ arg.atol = 0 /\ WellShaped(arg.particles)) =>
        /\ res.tag = "ok"
        /\ Len(res.val) = Len(arg.particles.rows)
        /\ \A i \in 1..Len(arg.particles.rows) :
              LET row == arg.particles.rows[i]
              IN  res.val[i] = ((\E c \in 1..4 : row[c] # 0) /\ row[1] > 0 /\ row[4] # 0)

\* a kept row beside a padding row that still carries a pdgid
MaskWitness ==
    /\ pc = "done" /\ arg.atol = 0 /\ res.tag = "ok"
    /\ Len(res.val) = 2
    /\ res.val[1] /\ ~res.val[2]
    /\ arg.particles.rows[2][1] = 0 /\ arg.particles.rows[2][4] # 0

----------------------------------------------------------------------------
(* SpecConv: the two entry points of the detector-row conversion *)

InitConv ==
    /\ pc = "call"
    /\ arg \in [particles : DetArrays \cup IllShaped,
                apply_padding_mask : BOOLEAN, assume_massless : BOOLEAN, atol : {0}]
    /\ res = Idle
    /\ caller = NoCaller /\ jet = NoJet /\ ret = Idle

CallPtyphipdgToP4 ==
    /\ pc = "call"
    /\ res' = ptyphipdg_to_p4(arg.particles, arg.apply_padding_mask,
                              arg.assume_massless, arg.atol)
    /\ pc' = "done"
    /\ UNCHANGED <<arg, caller, jet, ret>>

CallFromPtyphipdg ==
    /\ pc = "call"
    /\ res' = from_ptyphipdg(arg.particles, arg.apply_padding_mask,
                             arg.assume_massless, arg.atol)
    /\ pc' = "done"
    /\ UNCHANGED <<arg, caller, jet, ret>>

NextConv == CallPtyphipdgToP4 \/ CallFromPtyphipdg
SpecConv == InitConv /\ [][NextConv]_vars

\* C2: with assume_massless = False every well-shaped N x 4 input, the empty
\* and the all-padding ones included, ends in NotImplementedError.
NonMasslessAlwaysUnimplemented ==
    (pc = "done" /\ ~arg.assume_massless /\ WellShaped(arg.particles)) =>
        res = Raise("NotImplementedError")

----------------------------------------------------------------------------
(* SpecEta: scalar FourVector.eta and batched eta_array on the same rows *)

\* four-vectors (E, px, py, pz) whose direction covers every branch of eta
EtaVecs == {<<0, x, y, z>> : x \in {0, 1, 4}, y \in {0, 3}, z \in {-4, -2, -1, 0, 1, 2, 4}}

InitEta ==
    /\ pc = "call"
    /\ arg \in {Array(rs, 4) : rs \in SeqsUpTo(EtaVecs, MaxRows)}
    /\ res = [scalar |-> Idle, batched |-> Idle]
    /\ caller = NoCaller /\ jet = NoJet /\ ret = Idle

\* FourVector.from_array(row).eta() for each row in turn
CallEtaScalar ==
    /\ res.scalar = Idle
    /\ res' = [res EXCEPT !.scalar = Ok([i \in 1..Len(arg.rows) |-> eta(from_array(arg.rows[i]))])]
    /\ pc' = IF res.batched = Idle THEN "call" ELSE "done"
    /\ UNCHANGED <<arg, caller, jet, ret>>

CallEtaArray ==
    /\ res.batched = Idle
    /\ res' = [res EXCEPT !.batched = eta_array(arg)]
    /\ pc' = IF res.scalar = Idle THEN "call" ELSE "done"
    /\ UNCHANGED <<arg, caller, jet, ret>>

NextEta == CallEtaScalar \/ CallEtaArray
SpecEta == InitEta /\ [][NextEta]_vars

\* the degenerate branch as the claim states it
DegenerateRow(r) ==
    LET p_abs == ISqrt(r[2] * r[2] + r[3] * r[3] + r[4] * r[4])
    IN  Abs(p_abs - r[4]) < EPS \/ p_abs + r[4] <= 0 \/ p_abs - r[4] <= 0

\* C5: in the degenerate branch eta is +inf or -inf with the sign of pz,
\* never NaN and never finite, the zero vector included.
EtaDegenerateIsSignedInfinity ==
    res.scalar # Idle =>
        \A i \in 1..Len(arg.rows) :
            DegenerateRow(arg.rows[i]) =>
                /\ IsInf(res.scalar.val[i])
                /\ res.scalar.val[i].v = Sgn(arg.rows[i][4])

\* C6: row by row, eta_array takes the same branch and returns the same
\* value (bit for bit, NaN included) as FourVector.eta.
EtaArrayAgreesWithScalar ==
    pc = "done" =>
        /\ res.scalar.tag = "ok" /\ res.batched.tag = "ok"
        /\ Len(res.batched.val) = Len(arg.rows)
        /\ \A i \in 1..Len(arg.rows) : res.batched.val[i] = res.scalar.val[i]

\* both paths ran on an array holding a degenerate and a logarithmic row
EtaAgreeWitness ==
    /\ pc = "done" /\ Len(arg.rows) = 2
    /\ IsInf(res.batched.val[1]) /\ DegenerateRow(arg.rows[1]) /\ arg.rows[1][2] # 0
    /\ IsFin(res.batched.val[2]) /\ res.batched.val[2].v # 0

----------------------------------------------------------------------------
(* SpecWrap: wrap_delta_phi on scalars and on arrays *)

\* largest |dphi| tried, in angular steps
MaxDPhi == 40

InitWrap ==
    /\ pc = "call"
    /\ arg \in [scalar : {TRUE}, dphi : {Fin(d) : d \in -MaxDPhi..MaxDPhi}]
          \cup [scalar : {FALSE},
                dphi : SeqsUpTo({Fin(d) : d \in {-Pi - 1, -Pi, 0, Pi, 3 * Pi}}, MaxRows)]
    /\ res = Idle
    /\ caller = NoCaller /\ jet = NoJet /\ ret = Idle

CallWrap ==
    /\ pc = "call"
    /\ res' = IF arg.scalar THEN wrap_delta_phi(arg.dphi)
              ELSE [i \in 1..Len(arg.dphi) |-> wrap_delta_phi(arg.dphi[i])]
    /\ pc' = "done"
    /\ UNCHANGED <<arg, caller, jet, ret>>

NextWrap == CallWrap
SpecWrap == InitWrap /\ [][NextWrap]_vars

\* the inputs and outputs of the finished call, as a sequence of pairs
WrapPairs ==
    IF arg.scalar THEN <<<<arg.dphi, res>>>>
    ELSE [i \in 1..Len(arg.dphi) |-> <<arg.dphi[i], res[i]>>]

----------------------------------------------------------------------------
(* SpecDeltaR: delta_r in both argument orders *)

\* aggregate four-vectors of the two jets: every direction class of eta, phi
DirVecs == {FourVector(0, x, y, z) : x \in {-4, 0, 1, 4}, y \in {-3, 0, 3}, z \in {-4, -1, 0, 2, 4}}

InitDeltaR ==
    /\ pc = "call"
    /\ arg \in [a : DirVecs, b : DirVecs]
    /\ res = [ab |-> Idle, ba |-> Idle]
    /\ caller = NoCaller /\ jet = NoJet /\ ret = Idle

CallDeltaRAB ==
    /\ res.ab = Idle
    /\ res' = [res EXCEPT !.ab = Ok(delta_r(arg.a, arg.b))]
    /\ pc' = IF res.ba = Idle THEN "call" ELSE "done"
    /\ UNCHANGED <<arg, caller, jet, ret>>

CallDeltaRBA ==
    /\ res.ba = Idle
    /\ res' = [res EXCEPT !.ba = Ok(delta_r(arg.b, arg.a))]
    /\ pc' = IF res.ab = Idle THEN "call" ELSE "done"
    /\ UNCHANGED <<arg, caller, jet, ret>>

NextDeltaR == CallDeltaRAB \/ CallDeltaRBA
SpecDeltaR == InitDeltaR /\ [][NextDeltaR]_vars

\* C8: delta_r(A, B) equals delta_r(B, A) for all jets, degenerate
\* pseudorapidities included (binary64 equality, as == compares).
DeltaRSymmetric ==
    pc = "done" => FEq(res.ab.val, res.ba.val)

----------------------------------------------------------------------------
(* SpecMass: FourVector.mass on every bounded four-vector *)

\* largest |component| of a four-vector
MaxComp == 3

InitMass ==
    /\ pc = "call"
    /\ arg \in {FourVector(e, x, y, z) : e \in -MaxComp..MaxComp, x \in -MaxComp..MaxComp,
                                         y \in -MaxComp..MaxComp, z \in -MaxComp..MaxComp}
    /\ res = Idle
    /\ caller = NoCaller /\ jet = NoJet /\ ret = Idle

CallMass ==
    /\ pc = "call"
    /\ res' = mass(arg)
    /\ pc' = "done"
    /\ UNCHANGED <<arg, caller, jet, ret>>

NextMass == CallMass
SpecMass == InitMass /\ [][NextMass]_vars

----------------------------------------------------------------------------
(* Spec: the life of one Jet.  A caller holds an array object, builds a    *)
(* Jet from it, may later write into its own array, and calls observables. *)
(* np.asarray(particles, dtype=float) returns the caller's object itself   *)
(* when that is a float64 ndarray, and a fresh array for anything else.    *)

\* writes the caller makes to its array after building the Jet
MaxWrites == 1

\* constituent four-vectors (E, px, py, pz)
JetRows == {<<5, 3, 0, 4>>, <<5, 0, 3, -4>>, <<2, 0, 0, 2>>, <<4, -2, -2, 1>>, <<0, 0, 0, 0>>}
WriteVals == {7}

JetArrays == {Array(rs, 4) : rs \in SeqsUpTo(JetRows, MaxRows)}

\* the array self.particles refers to, and the jet as an observable reads it
JetParticles == IF jet.alias THEN caller.arr ELSE jet.own
J == [particles |-> JetParticles, p4 |-> jet.p4]

Called(fn, x) == [tag |-> "ok", val |-> x, fn |-> fn]

Init ==
    /\ pc = "call" /\ arg = Idle /\ res = Idle
    /\ caller \in [kind : {"ndarray_float64", "list"},
                   arr : JetArrays \cup IllShaped,
                   writes : {0}]
    /\ jet = NoJet
    /\ ret = Idle

\* Jet(particles)
Construct ==
    /\ ~jet.built /\ ret = Idle
    /\ LET r == JetInit(caller.arr)
       IN  IF r.tag = "raise"
           THEN ret' = r /\ jet' = jet
           ELSE /\ ret' = Called("Jet", 0)
                /\ jet' = [built |-> TRUE,
                           alias |-> caller.kind = "ndarray_float64"
                                     /\ r.val.particles = caller.arr,
                           own |-> r.val.particles,
                           p4 |-> r.val.p4]
    /\ UNCHANGED <<pc, arg, res, caller>>

\* the caller assigns particles[i, c] = v in the array it passed
CallerWrite ==
    /\ jet.built /\ caller.writes < MaxWrites /\ WellShaped(caller.arr)
    /\ \E i \in 1..Len(caller.arr.rows), c \in 1..4, v \in WriteVals :
          caller' = [caller EXCEPT !.arr.rows[i][c] = v, !.writes = @ + 1]
    /\ ret' = Idle
    /\ UNCHANGED <<pc, arg, res, jet>>

JetPt == jet.built /\ ret' = Called("pt", pt(J.p4)) /\ UNCHANGED <<pc, arg, res, caller, jet>>
JetMass == jet.built /\ ret' = Called("mass", mass(J.p4)) /\ UNCHANGED <<pc, arg, res, caller, jet>>
JetEta == jet.built /\ ret' = Called("eta", eta(J.p4)) /\ UNCHANGED <<pc, arg, res, caller, jet>>
JetPhi == jet.built /\ ret' = Called("phi", phi(J.p4)) /\ UNCHANGED <<pc, arg, res, caller, jet>>
JetWidth == jet.built /\ ret' = Called("jet_width", jet_width(J)) /\ UNCHANGED <<pc, arg, res, caller, jet>>
JetE2 == jet.built /\ ret' = Called("e2", energy_correlation_e2(J)) /\ UNCHANGED <<pc, arg, res, caller, jet>>
JetTau1Axis ==
    /\ jet.built
    /\ ret' = Called("shapes.tau1", shapes_nsubjettiness_tau1(J))
    /\ UNCHANGED <<pc, arg, res, caller, jet>>
JetTau1 ==
    /\ jet.built
    /\ ret' = [tag |-> nsubjettiness_tau1(J).tag, val |-> nsubjettiness_tau1(J).val, fn |-> "tau1"]
    /\ UNCHANGED <<pc, arg, res, caller, jet>>

JetZg == jet.built /\ ret' = Called("zg", soft_drop_zg_proxy(J)) /\ UNCHANGED <<pc, arg, res, caller, jet>>
JetRg == jet.built /\ ret' = Called("rg", soft_drop_rg_proxy(J)) /\ UNCHANGED <<pc, arg, res, caller, jet>>

\* groomed_pair_mass_proxy(jet): the one observable that does arithmetic on
\* rows of jet.particles themselves
JetPairMass ==
    /\ jet.built
    /\ ret' = Called("groomed_pair_mass", groomed_pair_mass_proxy(J))
    /\ IF jet.alias
       THEN /\ caller' = [caller EXCEPT !.arr = particles_after_pair_mass(J)]
            /\ jet' = jet
       ELSE /\ jet' = [jet EXCEPT !.own = particles_after_pair_mass(J)]
            /\ caller' = caller
    /\ UNCHANGED <<pc, arg, res>>

Next ==
    \/ Construct \/ CallerWrite
    \/ JetPt \/ JetMass \/ JetEta \/ JetPhi
    \/ JetWidth \/ JetE2 \/ JetTau1Axis \/ JetTau1
    \/ JetZg \/ JetRg \/ JetPairMass

Spec == Init /\ [][Next]_vars

\* Jet(...) has been called
Attempted == jet.built \/ ret # Idle

\* C3 as stated: a Jet exists only for an input of shape N x 4; every other
\* shape raised and left no Jet.
JetOnlyFromNx4 ==
    Attempted =>
        /\ jet.built <=> WellShaped(caller.arr)
        /\ ~jet.built => ret = Raise("ValueError")

\* C3 amended: a Jet exists only for an input of shape N x 4 or for the
\* empty 1-D input of shape (0,), which is taken as 0 x 4; every other shape
\* raised ValueError and left no Jet.
JetOnlyFromNx4OrEmpty1D ==
    Attempted =>
        /\ jet.built <=> (WellShaped(caller.arr) \/ caller.arr.shape = <<0>>)
        /\ ~jet.built => ret = Raise("ValueError")
        /\ jet.built => WellShaped(JetParticles)

\* a rank-1 input of three numbers was refused and no Jet exists
JetRefusedWitness ==
    /\ ~jet.built /\ ret = Raise("ValueError") /\ caller.arr.shape = <<3>>

\* C4: whenever a Jet exists its p4 is the elementwise sum of its particles
\* (zero for N = 0), also after the caller writes to the array it passed.
AggregateIsSumOfParticles ==
    jet.built => jet.p4 = from_array(SumRows(JetParticles.rows))

\* C10: on a jet with 0 constituents pt, mass, width, e2 and tau1 return
\* exactly 0.0 and do not raise.
EmptyJetObservablesAreZero ==
    (jet.built /\ NRows(J) = 0
       /\ ret # Idle /\ ret.fn \in {"pt", "mass", "jet_width", "e2", "shapes.tau1", "tau1"}) =>
        /\ ret.tag = "ok"
        /\ ret.val = Fin(0)

EmptyJetWitness ==
    /\ jet.built /\ NRows(J) = 0 /\ ret # Idle /\ ret.fn = "jet_width" /\ ret.val = Fin(0)

\* a step in which an observable is called on the Jet
ObservableStep == jet.built /\ jet'.built /\ caller'.writes = caller.writes

\* what the observable named fn returns on the Jet as it is now
ObservableValue(fn) ==
    CASE fn = "pt" -> pt(J.p4)
      [] fn = "mass" -> mass(J.p4)
      [] fn = "eta" -> eta(J.p4)
      [] fn = "phi" -> phi(J.p4)
      [] fn = "jet_width" -> jet_width(J)
      [] fn = "e2" -> energy_correlation_e2(J)
      [] fn = "shapes.tau1" -> shapes_nsubjettiness_tau1(J)
      [] fn = "tau1" -> nsubjettiness_tau1(J).val
      [] fn = "zg" -> soft_drop_zg_proxy(J)
      [] fn = "rg" -> soft_drop_rg_proxy(J)
      [] fn = "groomed_pair_mass" -> groomed_pair_mass_proxy(J)

\* C18: a call of an observable leaves jet.particles and jet.p4 as they were,
\* and the value it returned is the value the same call returns on the Jet
\* afterwards, whatever observables are called in between.
ObservablesAreReadOnly ==
    /\ [][ObservableStep => (JetParticles' = JetParticles /\ jet'.p4 = jet.p4)]_vars
    /\ []((jet.built /\ ret.tag = "ok" /\ ret.fn # "Jet") => ret.val = ObservableValue(ret.fn))

\* the pair mass of a two-constituent Jet was taken and came out positive
ReadOnlyWitness ==
    /\ jet.built /\ NRows(J) = 2 /\ ret.tag = "ok" /\ ret.fn = "groomed_pair_mass"
    /\ JetParticles.rows[1] # JetParticles.rows[2]
    /\ ret.val.v > 0

----------------------------------------------------------------------------
(* SpecSubstructure: the substructure observables of substructure.py on    *)
(* every jet of up to MaxConstituents constituents.                        *)

\* largest number of constituents of a jet handed to an observable
MaxConstituents == 4

\* constituents (E, px, py, pz): four of different direction with a finite
\* eta, one of zero pT along the beam, one of positive pT whose |p| - pz is
\* below EPS
SubRows ==
    {<<3, 3, 0, 0>>, <<3, 0, 2, -1>>, <<5, 0, -4, 2>>, <<3, -2, -1, 0>>,
     <<2, 0, 0, 2>>, <<2, -1, 0, 1>>}

\* Jet(rows) for every sequence of up to MaxConstituents such rows
SubJets == {JetInit(Array(rs, 4)).val : rs \in SeqsUpTo(SubRows, MaxConstituents)}

InitSubstructure ==
    /\ pc = "call"
    /\ arg \in [jet : SubJets]
    /\ res = Idle
    /\ caller = NoCaller /\ jet = NoJet /\ ret = Idle

Returned(fn, k, out) == [fn |-> fn, k |-> k, tag |-> out.tag, val |-> out.val]

\* nsubjettiness_tau1 / tau2 / tau3
CallTau ==
    /\ pc = "call"
    /\ \E k \in 1..3 :
          res' = Returned("tau", k,
                          CASE k = 1 -> nsubjettiness_tau1(arg.jet)
                            [] k = 2 -> nsubjettiness_tau2(arg.jet)
                            [] k = 3 -> nsubjettiness_tau3(arg.jet))
    /\ pc' = "done"
    /\ UNCHANGED <<arg, caller, jet, ret>>

\* the sets of k constituents such that no constituent outside has a higher pT
TopPtSets(jt, k) ==
    LET pts == constituent_pts(jt.particles)
    IN  {A \in SUBSET (1..NRows(jt)) :
            /\ Cardinality(A) = k
            /\ \A a \in A, b \in (1..NRows(jt)) \ A : pts[a].v >= pts[b].v}

\* the least of the distances from constituent i to the axes A
MinAxisDistance(jt, i, A) ==
    LET ds == {PairDr(jt, i, a) : a \in A}
    IN  IF NaN \in ds THEN NaN ELSE CHOOSE d \in ds : \A e \in ds : ~FLt(e, d)

\* the double loop: constituents 1..i, and for each one every axis of A
RECURSIVE TauLoop(_, _, _)
TauLoop(jt, A, i) ==
    IF i = 0 THEN Fin(0)
    ELSE FAdd(TauLoop(jt, A, i - 1),
              FMul(constituent_pts(jt.particles)[i], MinAxisDistance(jt, i, A)))

\* C11 as stated: tau_k is 0 for fewer than k + 1 constituents, and for
\* every other jet it is the double-loop sum of pT_i times the least distance
\* to the k constituents of highest pT.
TauIsTopKLoopSum ==
    (pc = "done" /\ res.fn = "tau") =>
        /\ res.tag = "ok"
        /\ IF NRows(arg.jet) < res.k + 1 THEN res.val = Fin(0)
           ELSE \E A \in TopPtSets(arg.jet, res.k) :
                    res.val = TauLoop(arg.jet, A, NRows(arg.jet))

\* C11 amended: tau_k is 0 for fewer than k + 1 constituents and also when
\* the constituent pT sum is 0; for every other jet it is the double-loop sum
\* of pT_i times the least distance to the k constituents of highest pT.
TauIsTopKLoopSumOrZeroPt ==
    (pc = "done" /\ res.fn = "tau") =>
        /\ res.tag = "ok"
        /\ IF NRows(arg.jet) < res.k + 1 THEN res.val = Fin(0)
           ELSE IF FSum(constituent_pts(arg.jet.particles)) = Fin(0) THEN res.val = Fin(0)
           ELSE \E A \in TopPtSets(arg.jet, res.k) :
                    res.val = TauLoop(arg.jet, A, NRows(arg.jet))

\* tau2 of four constituents of finite eta came out finite and positive
TauWitness ==
    /\ pc = "done" /\ res.fn = "tau" /\ res.k = 2
    /\ NRows(arg.jet) = 4
    /\ IsFin(res.val) /\ res.val.v > 0

\* nsubjettiness_tau21, nsubjettiness_tau32, energy_correlation_c2, energy_correlation_d2
CallRatio ==
    /\ pc = "call"
    /\ \E fn \in {"tau21", "tau32", "c2", "d2"} :
          res' = Returned(fn, 0,
                          CASE fn = "tau21" -> nsubjettiness_tau21(arg.jet)
                            [] fn = "tau32" -> nsubjettiness_tau32(arg.jet)
                            [] fn = "c2" -> energy_correlation_c2(arg.jet)
                            [] fn = "d2" -> energy_correlation_d2(arg.jet))
    /\ pc' = "done"
    /\ UNCHANGED <<arg, caller, jet, ret>>

\* the quantity each ratio tests against 0, its numerator and its divisor
RatioGuard(jt, fn) ==
    CASE fn = "tau21" -> nsubjettiness_tau1(jt).val
      [] fn = "tau32" -> nsubjettiness_tau2(jt).val
      [] fn \in {"c2", "d2"} -> energy_correlation_e2(jt)
RatioNumerator(jt, fn) ==
    CASE fn = "tau21" -> nsubjettiness_tau2(jt).val
      [] fn = "tau32" -> nsubjettiness_tau3(jt).val
      [] fn \in {"c2", "d2"} -> energy_correlation_e3(jt)
RatioDivisor(jt, fn) ==
    LET e2 == energy_correlation_e2(jt)
    IN  CASE fn = "tau21" -> nsubjettiness_tau1(jt).val
          [] fn = "tau32" -> nsubjettiness_tau2(jt).val
          [] fn = "c2" -> FMul(e2, e2)
          [] fn = "d2" -> FMul(FMul(e2, e2), e2)

\* C12: each ratio returns 0 when the quantity it guards on is <= 0 and the
\* stated quotient of the underlying observables otherwise; none raises.
RatioIsGuardedQuotient ==
    (pc = "done" /\ res.fn \in {"tau21", "tau32", "c2", "d2"}) =>
        /\ res.tag = "ok"
        /\ IF FLe(RatioGuard(arg.jet, res.fn), Fin(0)) THEN res.val = Fin(0)
           ELSE res.val = FDiv(RatioNumerator(arg.jet, res.fn), RatioDivisor(arg.jet, res.fn))

\* tau21 of a jet whose tau1 is 0 although it has several constituents
RatioZeroWitness ==
    /\ pc = "done" /\ res.fn = "tau21" /\ NRows(arg.jet) >= 3
    /\ nsubjettiness_tau1(arg.jet).val = Fin(0)
    /\ res.tag = "ok" /\ res.val = Fin(0)

\* energy_correlation_e2, energy_correlation_e3
CallE2 ==
    /\ pc = "call"
    /\ res' = Returned("e2", 0, Ok(energy_correlation_e2(arg.jet)))
    /\ pc' = "done"
    /\ UNCHANGED <<arg, caller, jet, ret>>

CallE3 ==
    /\ pc = "call"
    /\ res' = Returned("e3", 0, Ok(energy_correlation_e3(arg.jet)))
    /\ pc' = "done"
    /\ UNCHANGED <<arg, caller, jet, ret>>

\* the sets of m distinct constituents of a jet of n constituents
Unordered(n, m) == {S \in SUBSET (1..n) : Cardinality(S) = m}

\* the sum of f over the sets Ss, each set taken once
RECURSIVE SetSum(_, _)
SetSum(f, Ss) ==
    IF Ss = {} THEN Fin(0)
    ELSE LET S == CHOOSE S \in Ss : TRUE
         IN  FAdd(f[S], SetSum(f, Ss \ {S}))

\* the members of a set of constituents in increasing order
Least(S) == CHOOSE i \in S : \A j \in S : i <= j
Greatest(S) == CHOOSE i \in S : \A j \in S : i >= j

\* pT_i * pT_j * DeltaR_ij of the pair S = {i, j}
PairTerm(jt, S) ==
    LET pts == constituent_pts(jt.particles)
    IN  FMul(FMul(pts[Least(S)], pts[Greatest(S)]), PairDr(jt, Least(S), Greatest(S)))

\* C13: e2 is 0 for fewer than 2 constituents and otherwise the sum of
\* pT_i * pT_j * DeltaR_ij taken once over every unordered pair {i, j}, i # j.
E2CountsEachPairOnce ==
    (pc = "done" /\ res.fn = "e2") =>
        /\ res.tag = "ok"
        /\ IF NRows(arg.jet) < 2 THEN res.val = Fin(0)
           ELSE LET pairs == Unordered(NRows(arg.jet), 2)
                IN  res.val = SetSum([S \in pairs |-> PairTerm(arg.jet, S)], pairs)

\* e2 of four constituents, two of them the same row, came out finite and positive
E2Witness ==
    /\ pc = "done" /\ res.fn = "e2" /\ NRows(arg.jet) = 4
    /\ arg.jet.particles.rows[1] = arg.jet.particles.rows[4]
    /\ IsFin(res.val) /\ res.val.v > 0

\* the product of the three pT and the three DeltaR of the triple S = {i, j, k}
TripleSetTerm(jt, S) ==
    LET pts == constituent_pts(jt.particles)
        i == Least(S)
        k == Greatest(S)
        j == CHOOSE m \in S : m # i /\ m # k
    IN  FMul(FMul(FMul(FMul(FMul(pts[i], pts[j]), pts[k]), PairDr(jt, i, j)),
                  PairDr(jt, i, k)),
             PairDr(jt, j, k))

\* C14: e3 is 0 for fewer than 3 constituents and otherwise the sum of
\* pT_i pT_j pT_k DeltaR_ij DeltaR_ik DeltaR_jk taken once over every
\* unordered triple i < j < k, none left out.
E3CountsEachTripleOnce ==
    (pc = "done" /\ res.fn = "e3") =>
        /\ res.tag = "ok"
        /\ IF NRows(arg.jet) < 3 THEN res.val = Fin(0)
           ELSE LET triples == Unordered(NRows(arg.jet), 3)
                IN  res.val = SetSum([S \in triples |-> TripleSetTerm(arg.jet, S)], triples)

\* e3 of four constituents of pairwise different direction: four triples
E3Witness ==
    /\ pc = "done" /\ res.fn = "e3" /\ NRows(arg.jet) = 4
    /\ IsFin(res.val) /\ res.val.v > 0
    /\ \A S \in Unordered(4, 3) : TripleSetTerm(arg.jet, S).v > 0

\* every angular distance between two constituents of the jet is finite
FiniteDistances(jt) ==
    \A i \in 1..NRows(jt), j \in 1..NRows(jt) : IsFin(PairDr(jt, i, j))

\* tau2 <= tau1 and tau3 <= tau2 on the jet
TauDecreasing(jt) ==
    /\ FLe(nsubjettiness_tau2(jt).val, nsubjettiness_tau1(jt).val)
    /\ FLe(nsubjettiness_tau3(jt).val, nsubjettiness_tau2(jt).val)

\* the value returned is a number of the closed interval [0, 1]
InUnitInterval(x) == FLe(Fin(0), x) /\ FLe(x, Fin(1))

\* C21 as stated: tau_{k+1} <= tau_k on every jet with finite angular
\* distances, and tau21 and tau32 lie in [0, 1] on every jet.
TauRatiosAlwaysInUnitInterval ==
    pc = "done" =>
        /\ (res.fn \in {"tau", "tau21", "tau32"} /\ FiniteDistances(arg.jet)) =>
              TauDecreasing(arg.jet)
        /\ res.fn \in {"tau21", "tau32"} => (res.tag = "ok" /\ InUnitInterval(res.val))

\* C21 amended: on every jet with finite angular distances tau_{k+1} <= tau_k,
\* and tau21 and tau32 lie in [0, 1].
TauRatiosInUnitIntervalWhenFinite ==
    (pc = "done" /\ res.fn \in {"tau", "tau21", "tau32"} /\ FiniteDistances(arg.jet)) =>
        /\ TauDecreasing(arg.jet)
        /\ res.fn \in {"tau21", "tau32"} => (res.tag = "ok" /\ InUnitInterval(res.val))

\* tau32 of four constituents of finite distances, with 0 < tau3 < tau2
TauRatioWitness ==
    /\ pc = "done" /\ res.fn = "tau32" /\ NRows(arg.jet) = 4
    /\ FiniteDistances(arg.jet)
    /\ nsubjettiness_tau3(arg.jet).val.v > 0
    /\ nsubjettiness_tau3(arg.jet).val.v < nsubjettiness_tau2(arg.jet).val.v
    /\ res.tag = "ok" /\ InUnitInterval(res.val)

NextSubstructure == CallTau \/ CallRatio \/ CallE2 \/ CallE3
SpecSubstructure == InitSubstructure /\ [][NextSubstructure]_vars

----------------------------------------------------------------------------
(* SpecGroomed: the grooming proxies of groomed.py on every jet of up to   *)
(* MaxConstituents constituents and a grid of (zcut, beta, r0).            *)

\* zcut in steps of 1 / ZUnit, beta, and r0 in angular steps
ZcutVals == {-10, 10}
BetaVals == {-1, 0, 1}
R0Vals == {0, 1, 2}

\* the proxies that take the jet alone
NoArgs == [zcut |-> 0, beta |-> 0, r0 |-> 0]

InitGroomed ==
    /\ pc = "call"
    /\ arg \in [jet : SubJets]
    /\ res = Idle
    /\ caller = NoCaller /\ jet = NoJet /\ ret = Idle

CallZg ==
    /\ pc = "call"
    /\ res' = Returned("zg", NoArgs, Ok(soft_drop_zg_proxy(arg.jet)))
    /\ pc' = "done"
    /\ UNCHANGED <<arg, caller, jet, ret>>

CallRg ==
    /\ pc = "call"
    /\ res' = Returned("rg", NoArgs, Ok(soft_drop_rg_proxy(arg.jet)))
    /\ pc' = "done"
    /\ UNCHANGED <<arg, caller, jet, ret>>

CallPassFraction ==
    /\ pc = "call"
    /\ \E zcut \in ZcutVals, beta \in BetaVals, r0 \in R0Vals :
          res' = Returned("pass_fraction", [zcut |-> zcut, beta |-> beta, r0 |-> r0],
                          soft_drop_pass_fraction_proxy(arg.jet, zcut, beta, r0))
    /\ pc' = "done"
    /\ UNCHANGED <<arg, caller, jet, ret>>

CallPairMass ==
    /\ pc = "call"
    /\ res' = Returned("groomed_pair_mass", NoArgs, Ok(groomed_pair_mass_proxy(arg.jet)))
    /\ pc' = "done"
    /\ UNCHANGED <<arg, caller, jet, ret>>

NextGroomed == CallZg \/ CallRg \/ CallPassFraction \/ CallPairMass
SpecGroomed == InitGroomed /\ [][NextGroomed]_vars

\* C15: pass_fraction never raises and returns 0.0 or 1.0: 0.0 whenever
\* r0 <= 0, otherwise 1.0 iff zg > zcut * (rg / r0)^beta.
PassFractionIsBinary ==
    (pc = "done" /\ res.fn = "pass_fraction") =>
        /\ res.tag = "ok"
        /\ res.val \in {Fin(0), Fin(1)}
        /\ (res.k.r0 <= 0 => res.val = Fin(0))
        /\ (res.k.r0 > 0 =>
              LET zg == soft_drop_zg_proxy(arg.jet)
                  ratio == FDiv(soft_drop_rg_proxy(arg.jet), Fin(res.k.r0))
                  power == PyPow(ratio, res.k.beta).val
              IN  (res.val = Fin(1)) <=> FLt(FMul(Fin(res.k.zcut), power), zg))

\* C16: on a jet of fewer than 2 constituents zg, rg, pass_fraction and
\* groomed_pair_mass all return 0.0, whatever zcut, beta and r0 are.
GroomingOfFewConstituentsIsZero ==
    (pc = "done" /\ NRows(arg.jet) < 2) =>
        /\ res.tag = "ok"
        /\ res.val = Fin(0)

----------------------------------------------------------------------------
(* SpecPadding: the helpers of evaluation.py and Jet.from_ptyphipdg on the *)
(* same detector array, padding mask applied, massless conversion.         *)

InitPadding ==
    /\ pc = "call"
    /\ arg \in [particles : DetArrays \cup IllShaped]
    /\ res = Idle
    /\ caller = NoCaller /\ jet = NoJet /\ ret = Idle

CallStripPadding ==
    /\ pc = "call"
    /\ res' = Returned("strip_padding", 0, strip_padding(arg.particles, 0))
    /\ pc' = "done"
    /\ UNCHANGED <<arg, caller, jet, ret>>

CallConstituentMultiplicity ==
    /\ pc = "call"
    /\ res' = Returned("constituent_multiplicity", 0, constituent_multiplicity(arg.particles, 0))
    /\ pc' = "done"
    /\ UNCHANGED <<arg, caller, jet, ret>>

CallLeadingConstituentPt ==
    /\ pc = "call"
    /\ res' = Returned("leading_constituent_pt", 0, leading_constituent_pt(arg.particles, 0))
    /\ pc' = "done"
    /\ UNCHANGED <<arg, caller, jet, ret>>

CallConvertMasked ==
    /\ pc = "call"
    /\ res' = Returned("ptyphipdg_to_p4", 0, ptyphipdg_to_p4(arg.particles, TRUE, TRUE, 0))
    /\ pc' = "done"
    /\ UNCHANGED <<arg, caller, jet, ret>>

CallConstructMasked ==
    /\ pc = "call"
    /\ res' = Returned("from_ptyphipdg", 0, from_ptyphipdg(arg.particles, TRUE, TRUE, 0))
    /\ pc' = "done"
    /\ UNCHANGED <<arg, caller, jet, ret>>

NextPadding ==
    \/ CallStripPadding \/ CallConstituentMultiplicity \/ CallLeadingConstituentPt
    \/ CallConvertMasked \/ CallConstructMasked
SpecPadding == InitPadding /\ [][NextPadding]_vars

\* the indices of the rows whose canonical mask is true, and the m-th of them
KeptIndices(particles) ==
    {i \in 1..Len(particles.rows) : canonical_constituent_mask(particles, 0).val[i]}
KeptIndex(particles, m) ==
    CHOOSE i \in KeptIndices(particles) :
        Cardinality({j \in KeptIndices(particles) : j < i}) = m - 1

\* the kept rows in their original order
KeptRows(particles) ==
    [m \in 1..Cardinality(KeptIndices(particles)) |-> particles.rows[KeptIndex(particles, m)]]

\* C17: on an N x 4 detector array strip_padding returns the rows whose
\* canonical mask is true, in order; constituent_multiplicity is their
\* number; leading_constituent_pt is their largest pT (0 when none is left);
\* ptyphipdg_to_p4 and Jet.from_ptyphipdg give one four-vector per kept row,
\* in the same order, and the same array as each other.
PaddingRemovedConsistently ==
    (pc = "done" /\ WellShaped(arg.particles)) =>
        LET kept == KeptRows(arg.particles)
        IN  /\ res.tag = "ok"
            /\ res.fn = "strip_padding" => res.val = [shape |-> <<Len(kept), 4>>, rows |-> kept]
            /\ res.fn = "constituent_multiplicity" => res.val = Len(kept)
            /\ res.fn = "leading_constituent_pt" =>
                  IF kept = <<>> THEN res.val = 0
                  ELSE /\ \E m \in 1..Len(kept) : res.val = kept[m][1]
                       /\ \A m \in 1..Len(kept) : res.val >= kept[m][1]
            /\ res.fn = "ptyphipdg_to_p4" =>
                  /\ res.val.shape = <<Len(kept), 4>>
                  /\ res.val.rows = [m \in 1..Len(kept) |-> RowToP4(kept[m])]
            /\ res.fn = "from_ptyphipdg" =>
                  /\ res.val.particles = ptyphipdg_to_p4(arg.particles, TRUE, TRUE, 0).val
                  /\ Len(res.val.particles.rows) = Len(kept)

\* a Jet was built from two rows of which the first was padding
PaddingWitness ==
    /\ pc = "done" /\ res.fn = "from_ptyphipdg" /\ res.tag = "ok"
    /\ Len(arg.particles.rows) = 2
    /\ ~canonical_constituent_mask(arg.particles, 0).val[1]
    /\ res.val.particles.rows = <<RowToP4(arg.particles.rows[2])>>

----------------------------------------------------------------------------
(* SpecShapes: jet_width, girth and radial_moment of shapes.py on every    *)
(* jet of up to MaxConstituents constituents.                              *)

\* exponents of the radial moment
MomentBetas == {0, 1, 2}

InitShapes ==
    /\ pc = "call"
    /\ arg \in [jet : SubJets]
    /\ res = Idle
    /\ caller = NoCaller /\ jet = NoJet /\ ret = Idle

CallJetWidth ==
    /\ pc = "call"
    /\ res' = Returned("jet_width", 1, Ok(jet_width(arg.jet)))
    /\ pc' = "done"
    /\ UNCHANGED <<arg, caller, jet, ret>>

CallGirth ==
    /\ pc = "call"
    /\ res' = Returned("girth", 1, Ok(girth(arg.jet)))
    /\ pc' = "done"
    /\ UNCHANGED <<arg, caller, jet, ret>>

CallRadialMoment ==
    /\ pc = "call"
    /\ \E beta \in MomentBetas :
          res' = Returned("radial_moment", beta, Ok(radial_moment(arg.jet, beta)))
    /\ pc' = "done"
    /\ UNCHANGED <<arg, caller, jet, ret>>

NextShapes == CallJetWidth \/ CallGirth \/ CallRadialMoment
SpecShapes == InitShapes /\ [][NextShapes]_vars

\* the jet is empty or its constituent pT sum is 0
ZeroPtSum(jt) == NRows(jt) = 0 \/ FSum(constituent_pts(jt.particles)) = Fin(0)

\* C19: jet_width is a number >= 0, never NaN, for every jet, a jet with a
\* constituent of zero pT and non-zero pz included, and it is 0 for an empty
\* jet or a zero pT sum.
WidthIsNonNegativeNumber ==
    (pc = "done" /\ res.fn = "jet_width") =>
        /\ ~IsNaN(res.val)
        /\ FLe(Fin(0), res.val)
        /\ (ZeroPtSum(arg.jet) => res.val = Fin(0))

\* C20: radial_moment(jet, 1) and girth(jet) return what jet_width(jet)
\* returns, and radial_moment is 0 for an empty jet or a zero pT sum whatever
\* beta is, as jet_width is.
WidthIsFirstRadialMoment ==
    pc = "done" =>
        /\ (res.fn = "radial_moment" /\ res.k = 1) => res.val = jet_width(arg.jet)
        /\ res.fn = "girth" => res.val = jet_width(arg.jet)
        /\ (res.fn \in {"radial_moment", "girth"} /\ ZeroPtSum(arg.jet)) =>
              (res.val = Fin(0) /\ jet_width(arg.jet) = Fin(0))

\* the first moment of a jet whose second moment is a different number
FirstMomentWitness ==
    /\ pc = "done" /\ res.fn = "radial_moment" /\ res.k = 1
    /\ IsFin(res.val) /\ res.val.v > 0
    /\ radial_moment(arg.jet, 2) # res.val

(***************************************************************************)
(* Order of the constituents (SpecGroomed)                                 *)
(***************************************************************************)

\* the reorderings of n rows
RowOrders(n) == {f \in [1..n -> 1..n] : \A a, b \in 1..n : f[a] = f[b] => a = b}

\* the jet built from the same constituent rows taken in the order f
Reordered(jt, f) ==
    JetInit(Array([k \in 1..NRows(jt) |-> jt.particles.rows[f[k]]], 4)).val

\* the two constituents chosen as the hardest pair, as a set of rows
HardestPairRows(jt) ==
    LET pair == hardest_pair_indices(jt)
    IN  IF pair.none THEN {}
        ELSE {jt.particles.rows[pair.i], jt.particles.rows[pair.j]}

\* the proxy named fn evaluated on a jet
GroomedValue(fn, jt) ==
    CASE fn = "zg" -> soft_drop_zg_proxy(jt)
      [] fn = "rg" -> soft_drop_rg_proxy(jt)
      [] fn = "groomed_pair_mass" -> groomed_pair_mass_proxy(jt)

\* C22: for every reordering of the constituent rows of a jet the hardest
\* pair is the same two constituents and zg, rg and groomed_pair_mass return
\* the value they return on the jet, equal pT included.
GroomingIgnoresConstituentOrder ==
    (pc = "done" /\ res.fn \in {"zg", "rg", "groomed_pair_mass"}) =>
        /\ res.val = GroomedValue(res.fn, arg.jet)
        /\ \A f \in RowOrders(NRows(arg.jet)) :
              /\ HardestPairRows(Reordered(arg.jet, f)) = HardestPairRows(arg.jet)
              /\ GroomedValue(res.fn, Reordered(arg.jet, f)) = res.val

\* C22 on the jets whose hardest pair is not decided by a tie: there the
\* proxies do ignore the order.
GroomingIgnoresOrderWithoutTie ==
    (/\ pc = "done" /\ res.fn \in {"zg", "rg", "groomed_pair_mass"}
     /\ LET pts == constituent_pts(arg.jet.particles)
            n == NRows(arg.jet)
            top == ArgSort(pts)
        IN  n >= 3 => \A k \in 1..n :
                         (k # top[n - 1] /\ pts[k] = pts[top[n - 1]]) => k = top[n])
    => \A f \in RowOrders(NRows(arg.jet)) :
          GroomedValue(res.fn, Reordered(arg.jet, f)) = res.val
====
